---- MODULE Spec2Model ----
(***************************************************************************)
(* Model of the vscode-http request tree provider                          *)
(* (src/src/provider/http_request_tree_provider.ts).                       *)
(*                                                                         *)
(* Strings are sequences of one-character strings.  Two letters stand for  *)
(* whole origins: "O" is "https://api.example.com" and "X" is              *)
(* "https://other.com"; they only ever occur at the start of a string.     *)
(* An optional value is a sequence of length at most one: <<>> is          *)
(* undefined and <<v>> is the value v.  An optional field of an object is  *)
(* a record field that is in the record's DOMAIN or not.                   *)
(***************************************************************************)
EXTENDS Integers, Sequences, FiniteSets, TLC

VARIABLES
    projects,   \* this.projects: the forest, a sequence of Project records
    stored,     \* what the key-value store durably holds under storageKey
    pending,    \* the value of a globalState.update whose Thenable is unresolved
    calls,      \* the async handlers in flight, each at its await
    now,        \* Date.now()
    trace,      \* the handler that ran last and the collaborator calls it made
    ret,        \* what the handler that ran last returned, undefined for void
    url,        \* getPathFromUrl: argument url
    baseUrl,    \* getPathFromUrl: argument baseUrl
    path        \* getPathFromUrl: the value returned

vars == <<projects, stored, pending, calls, now, trace, ret, url, baseUrl, path>>

(***************************************************************************)
(* Bounds                                                                  *)
(***************************************************************************)
MaxCalls == 2     \* async handlers in flight at once
MaxEnvs == 2      \* environments per project
MaxClock == 3     \* last value of Date.now()
MaxTail == 3      \* characters after the origin in a relativizer input
MaxId == 3        \* distinct ids a stored forest draws from

Undefined == <<>>
Some(v) == <<v>>

Range(s) == {s[k] : k \in 1..Len(s)}

(***************************************************************************)
(* String helpers                                                          *)
(***************************************************************************)
RECURSIVE StripTrailing(_, _)
\* s.replace(/c+$/, '')
StripTrailing(s, c) ==
    IF s = <<>> \/ s[Len(s)] # c THEN s
    ELSE StripTrailing(SubSeq(s, 1, Len(s) - 1), c)

RECURSIVE StripLeading(_, _)
StripLeading(s, c) ==
    IF s = <<>> \/ Head(s) # c THEN s ELSE StripLeading(Tail(s), c)

\* String.prototype.trim
trim(s) == StripTrailing(StripLeading(s, " "), " ")

\* String.prototype.startsWith
startsWith(s, p) == Len(p) <= Len(s) /\ SubSeq(s, 1, Len(p)) = p

\* String.prototype.slice(n)
slice(s, n) == SubSeq(s, n + 1, Len(s))

normalizeUrl(u) == StripTrailing(u, "/")

(***************************************************************************)
(* new URL(s): the WHATWG parser on the strings of the model.  Leading and *)
(* trailing spaces are dropped; a string that does not start with a scheme *)
(* and host does not parse; letters after the origin up to the first "/"   *)
(* extend the host, where a space is forbidden; the rest is the path, in   *)
(* which a space is percent-encoded; an empty path reads "/".  No string   *)
(* of the model holds an origin letter after its first character.          *)
(***************************************************************************)
Origins == {"O", "X"}

FirstSlash(s) ==
    IF \E k \in 1..Len(s) : s[k] = "/"
    THEN CHOOSE k \in 1..Len(s) : s[k] = "/" /\ \A j \in 1..(k - 1) : s[j] # "/"
    ELSE Len(s) + 1

PercentEncode(s) == [k \in 1..Len(s) |-> IF s[k] = " " THEN "%20" ELSE s[k]]

URL(s) ==
    LET t == trim(s) IN
    IF t = <<>> \/ Head(t) \notin Origins THEN [ok |-> FALSE, pathname |-> <<>>]
    ELSE LET rest == Tail(t)
             k == FirstSlash(rest)
             host == SubSeq(rest, 1, k - 1)
             p == SubSeq(rest, k, Len(rest))
         IN IF " " \in Range(host)
            THEN [ok |-> FALSE, pathname |-> <<>>]
            ELSE [ok |-> TRUE,
                  pathname |-> IF p = <<>> THEN <<"/">> ELSE PercentEncode(p)]

Threw == <<"TypeError">>

\* the prefix test without the "/" that ends the base path
RelativizeNoSlash(p, basePath) ==
    IF p = basePath \/ startsWith(p, basePath)
    THEN IF p = basePath THEN <<"/">>
         ELSE IF slice(p, Len(basePath)) = <<>> THEN <<"/">>
              ELSE slice(p, Len(basePath))
    ELSE p

\* lines 19-21 and 24: the path against a base path that is neither '' nor '/'
Relativize(p, basePath) ==
    IF p = basePath \/ startsWith(p, basePath \o <<"/">>)
    THEN IF p = basePath THEN <<"/">>
         ELSE IF slice(p, Len(basePath)) = <<>> THEN <<"/">>
              ELSE slice(p, Len(basePath))
    ELSE p

\* a base URL parsed outside the try block
getPathFromUrlNoCatch(u, b) ==
    LET parsed == URL(u) IN
    IF ~parsed.ok THEN u
    ELSE IF b # Undefined /\ b[1] # <<>>
         THEN LET base == URL(normalizeUrl(b[1])) IN
              IF ~base.ok THEN Threw
              ELSE LET basePath == StripTrailing(base.pathname, "/") IN
                   IF basePath # <<>> /\ basePath # <<"/">>
                   THEN Relativize(parsed.pathname, basePath)
                   ELSE parsed.pathname
         ELSE parsed.pathname

getPathFromUrl(u, b) ==
    LET parsed == URL(u) IN
    IF ~parsed.ok THEN u                                   \* catch
    ELSE LET p == IF parsed.pathname = <<>> THEN <<"/">> ELSE parsed.pathname IN
         IF b # Undefined /\ b[1] # <<>>                   \* if (baseUrl)
         THEN LET base == URL(normalizeUrl(b[1])) IN
              IF ~base.ok THEN u                           \* catch
              ELSE LET basePath == StripTrailing(base.pathname, "/") IN
                   IF basePath # <<>> /\ basePath # <<"/">>
                   THEN Relativize(p, basePath)
                   ELSE p
         ELSE p

(***************************************************************************)
(* The forest.  A Project is [id, name, children] with the optional fields *)
(* environments and currentEnvId; a Collection is [id, name, parentId,     *)
(* children]; an Interface is [id, name, url, method, parentId,            *)
(* requestBody, responseBody]; an Environment is [id, name, baseUrl].      *)
(* An id is a pair <<prefix, number>>: <<"env", 7>> is the string "env-7". *)
(* Names and bodies of the seed are shortened to one letter.               *)
(***************************************************************************)
Id(prefix, n) == <<prefix, n>>

SeedInterface(n, name, tail, method, parent, req, res) ==
    [id |-> Id("api", n), name |-> name, url |-> <<"O", "/">> \o tail,
     method |-> Some(method), parentId |-> parent,
     requestBody |-> req, responseBody |-> res]

\* loadFromStorage, the default example data
Seed ==
    << [id |-> Id("proj", 1),
        name |-> <<"p">>,
        environments |-> << [id |-> Id("env", 1), name |-> <<"d">>, baseUrl |-> <<"O">>] >>,
        currentEnvId |-> Id("env", 1),
        children |->
          << [id |-> Id("coll", 1), name |-> <<"c">>, parentId |-> Id("proj", 1),
              children |->
                << SeedInterface(1, <<"l">>, <<"u">>, "GET", Id("coll", 1),
                                 Undefined, Some(<<"[", "]">>)),
                   SeedInterface(2, <<"n">>, <<"u">>, "POST", Id("coll", 1),
                                 Some(<<"{", "}">>), Undefined) >>],
             SeedInterface(3, <<"h">>, <<"h">>, "GET", Id("proj", 1),
                           Undefined, Some(<<"o", "k">>)) >>] >>

isProject(item) == "children" \in DOMAIN item /\ "parentId" \notin DOMAIN item

isCollection(item) == "parentId" \in DOMAIN item /\ "children" \in DOMAIN item

isInterface(item) ==
    "parentId" \in DOMAIN item /\ "url" \in DOMAIN item /\ "children" \notin DOMAIN item

\* Array.prototype.find and the for-of scan: the first of the matching
\* indices (0: undefined)
First(matching) ==
    IF matching = {} THEN 0 ELSE CHOOSE k \in matching : \A j \in matching : k <= j

\* the Project is returned as its index in ps (0: undefined)
getProjectById(ps, id) == First({k \in 1..Len(ps) : ps[k].id = id})

getProjectForItem(ps, item) ==
    LET parentId == item.parentId
        project == getProjectById(ps, parentId)
    IN IF project # 0 THEN project
       ELSE First({k \in 1..Len(ps) :
                First({j \in 1..Len(ps[k].children) :
                         /\ "children" \in DOMAIN ps[k].children[j]
                         /\ ps[k].children[j].id = parentId}) # 0})

\* project.environments ?? []
Envs(project) ==
    IF "environments" \in DOMAIN project THEN project.environments ELSE <<>>

\* project.currentEnvId is truthy
HasCurrentEnvId(project) == "currentEnvId" \in DOMAIN project

getCurrentBaseUrl(project) ==
    LET envs == Envs(project)
        current == IF HasCurrentEnvId(project)
                   THEN First({k \in 1..Len(envs) : envs[k].id = project.currentEnvId})
                   ELSE IF envs # <<>> THEN 1 ELSE 0
    IN IF current = 0 THEN Undefined ELSE Some(envs[current].baseUrl)

(***************************************************************************)
(* Tree presenter                                                          *)
(***************************************************************************)
GetTreeItemOfProject(element) ==
    LET b == getCurrentBaseUrl(element) IN
    [label |-> element.name, collapsibleState |-> "Expanded", id |-> Some(element.id),
     iconPath |-> "folder-library",
     description |-> IF b = Undefined THEN <<>> ELSE b[1],
     tooltip |-> IF b # Undefined /\ b[1] # <<>> THEN <<"env", b[1]>>
                 ELSE <<"project", element.name>>,
     contextValue |-> "project"]

GetTreeItemOfCollection(element) ==
    [label |-> element.name, collapsibleState |-> "Expanded", id |-> Undefined,
     iconPath |-> "folder",
     description |-> <<Len(element.children), "requests">>,
     tooltip |-> <<"collection", element.name>>,
     contextValue |-> "collection"]

GetTreeItemOfInterface(ps, element) ==
    LET project == getProjectForItem(ps, element)
        b == IF project # 0 THEN getCurrentBaseUrl(ps[project]) ELSE Undefined
    IN [label |-> element.name, collapsibleState |-> "Collapsed", id |-> Undefined,
        iconPath |-> "globe",
        description |-> getPathFromUrl(element.url, b),
        tooltip |-> <<IF element.method = Undefined THEN "GET" ELSE element.method[1],
                      element.url>>,
        contextValue |-> "interface"]

GetTreeItemOfBody(kind, icon, body) ==
    [label |-> <<kind>>, collapsibleState |-> "None", id |-> Undefined,
     iconPath |-> icon,
     description |-> <<>>,
     tooltip |-> IF body = Undefined \/ body[1] = <<>> THEN <<"none", <<>>>>
                 ELSE <<"body", body[1]>>,
     contextValue |-> kind]

getTreeItem(ps, element) ==
    IF isProject(element) THEN GetTreeItemOfProject(element)
    ELSE IF isCollection(element) THEN GetTreeItemOfCollection(element)
    ELSE IF isInterface(element) THEN GetTreeItemOfInterface(ps, element)
    ELSE IF "type" \in DOMAIN element /\ element.type = "requestBody"
         THEN GetTreeItemOfBody("requestBody", "edit", element.parent.requestBody)
    ELSE IF "type" \in DOMAIN element /\ element.type = "responseBody"
         THEN GetTreeItemOfBody("responseBody", "output", element.parent.responseBody)
    ELSE [label |-> <<"unknown">>, collapsibleState |-> "None", id |-> Undefined,
          iconPath |-> "", description |-> <<>>, tooltip |-> <<"none", <<>>>>,
          contextValue |-> ""]

\* element is optional: getChildren() asks for the roots
getChildren(ps, element) ==
    IF element = Undefined THEN ps
    ELSE IF isProject(element[1]) THEN element[1].children
    ELSE IF isCollection(element[1]) THEN element[1].children
    ELSE IF isInterface(element[1])
         THEN << [type |-> "requestBody", parent |-> element[1]],
                 [type |-> "responseBody", parent |-> element[1]] >>
    ELSE <<>>

getProjects(ps) == ps

\* the elements the tree view can hold: all it can get from getChildren
Level(ps, parents) == UNION {Range(getChildren(ps, Some(n))) : n \in parents}

Nodes(ps) ==
    LET l1 == Range(getChildren(ps, Undefined))
        l2 == Level(ps, l1)
        l3 == Level(ps, l2)
        l4 == Level(ps, l3)
    IN l1 \cup l2 \cup l3 \cup l4

(***************************************************************************)
(* Environment manager.  A handler in flight holds the Project it was      *)
(* called with as the index of that object in this.projects.               *)
(***************************************************************************)
Slots == 1..MaxCalls

Idle == [op |-> "idle"]

\* what the user answers to showInputBox: undefined when dismissed
NameAnswers == {Undefined, Some(<<>>), Some(<<" ">>), Some(<<" ", "n", " ">>)}

BaseUrlAnswers ==
    {Undefined, Some(<<>>), Some(<<" ", " ">>),
     Some(<<"X", "/", "a">>), Some(<<"X", "/", "a", "/">>),
     Some(<<"X", "/", "a", "/", " ">>), Some(<<" ", "X", "/", "a", "/", "/", " ">>)}

\* a test for a dismissed prompt alone
BlankWhenDismissed(answer) == answer = Undefined

\* !answer?.trim()
Blank(answer) == answer = Undefined \/ trim(answer[1]) = <<>>

\* the slashes stripped before the trim
NewEnvironmentStripFirst(name, b, t) ==
    [id |-> Id("env", t), name |-> trim(name), baseUrl |-> trim(StripTrailing(b, "/"))]

\* lines 229-233
NewEnvironment(name, b, t) ==
    [id |-> Id("env", t), name |-> trim(name), baseUrl |-> StripTrailing(trim(b), "/")]

\* the push made on the temporary array of (project.environments ?? [])
pushEnvironmentOnCopy(project, env) ==
    LET pushed == IF "environments" \in DOMAIN project
                  THEN [project EXCEPT !.environments = Append(@, env)]
                  ELSE project
    IN IF HasCurrentEnvId(pushed) THEN pushed
       ELSE pushed @@ ("currentEnvId" :> env.id)

\* lines 234-236: the Project after the push and the default of currentEnvId
pushEnvironment(project, env) ==
    LET withEnvs == IF "environments" \in DOMAIN project THEN project
                    ELSE project @@ ("environments" :> <<>>)
        pushed == [withEnvs EXCEPT !.environments = Append(@, env)]
    IN IF HasCurrentEnvId(pushed) THEN pushed
       ELSE pushed @@ ("currentEnvId" :> env.id)

\* line 252
chooseEnvironment(project, chosen) ==
    IF HasCurrentEnvId(project) THEN [project EXCEPT !.currentEnvId = chosen.env.id]
    ELSE project @@ ("currentEnvId" :> chosen.env.id)

\* lines 248: the items of the quick pick
QuickPickItems(envs) ==
    [k \in 1..Len(envs) |->
        [label |-> envs[k].name, description |-> envs[k].baseUrl, env |-> envs[k]]]

\* saveToStorage then refresh
SaveAndRefresh == <<"globalState.update", "fire">>

Ran(handler, made) == [handler |-> handler, calls |-> made]

AddEnvironment(c, i) ==
    /\ calls[c] = Idle
    /\ calls' = [calls EXCEPT ![c] = [op |-> "addEnvironment", pc |-> "name", project |-> i]]
    /\ trace' = Ran("addEnvironment", <<"showInputBox">>)
    /\ ret' = Undefined
    /\ UNCHANGED <<projects, stored, pending, now, url, baseUrl, path>>

AddEnvironmentName(c, answer) ==
    /\ calls[c].op = "addEnvironment"
    /\ calls[c].pc = "name"
    /\ IF Blank(answer)
       THEN /\ calls' = [calls EXCEPT ![c] = Idle]
            /\ trace' = Ran("addEnvironment", <<>>)
       ELSE /\ calls' = [calls EXCEPT ![c] = [op |-> "addEnvironment", pc |-> "baseUrl",
                                              project |-> calls[c].project,
                                              name |-> answer[1]]]
            /\ trace' = Ran("addEnvironment", <<"showInputBox">>)
    /\ ret' = Undefined
    /\ UNCHANGED <<projects, stored, pending, now, url, baseUrl, path>>

AddEnvironmentBaseUrl(c, answer) ==
    /\ calls[c].op = "addEnvironment"
    /\ calls[c].pc = "baseUrl"
    /\ calls' = [calls EXCEPT ![c] = Idle]
    /\ IF Blank(answer)
       THEN /\ trace' = Ran("addEnvironment", <<>>)
            /\ UNCHANGED <<projects, pending>>
       ELSE LET i == calls[c].project
                env == NewEnvironment(calls[c].name, answer[1], now)
            IN /\ Len(Envs(projects[i])) < MaxEnvs
               /\ projects' = [projects EXCEPT ![i] = pushEnvironment(@, env)]
               /\ pending' = Some(projects')
               /\ trace' = Ran("addEnvironment", SaveAndRefresh)
    /\ ret' = Undefined
    /\ UNCHANGED <<stored, now, url, baseUrl, path>>

SetCurrentEnvironment(c, i) ==
    /\ calls[c] = Idle
    /\ LET envs == Envs(projects[i]) IN
       IF Len(envs) = 0
       THEN /\ trace' = Ran("setCurrentEnvironment", <<"showInformationMessage">>)
            /\ UNCHANGED calls
       ELSE /\ calls' = [calls EXCEPT ![c] = [op |-> "setCurrentEnvironment", pc |-> "pick",
                                              project |-> i,
                                              items |-> QuickPickItems(envs)]]
            /\ trace' = Ran("setCurrentEnvironment", <<"showQuickPick">>)
    /\ ret' = Undefined
    /\ UNCHANGED <<projects, stored, pending, now, url, baseUrl, path>>

\* k = 0: the quick pick was dismissed
SetCurrentEnvironmentPick(c, k) ==
    /\ calls[c].op = "setCurrentEnvironment"
    /\ k \in 0..Len(calls[c].items)
    /\ calls' = [calls EXCEPT ![c] = Idle]
    /\ IF k = 0
       THEN /\ trace' = Ran("setCurrentEnvironment", <<>>)
            /\ UNCHANGED <<projects, pending>>
       ELSE /\ projects' = [projects EXCEPT ![calls[c].project] =
                                chooseEnvironment(@, calls[c].items[k])]
            /\ pending' = Some(projects')
            /\ trace' = Ran("setCurrentEnvironment", SaveAndRefresh)
    /\ ret' = Undefined
    /\ UNCHANGED <<stored, now, url, baseUrl, path>>

Refresh ==
    /\ trace' = Ran("refresh", <<"fire">>)
    /\ ret' = Undefined
    /\ UNCHANGED <<projects, stored, pending, calls, now, url, baseUrl, path>>

\* a display fallback that records its choice in the Project
ProjectsAfterDisplayWrite(ps, element) ==
    IF isProject(element) /\ ~HasCurrentEnvId(element) /\ Envs(element) # <<>>
    THEN [k \in 1..Len(ps) |->
            IF ps[k] = element THEN ps[k] @@ ("currentEnvId" :> Envs(element)[1].id)
            ELSE ps[k]]
    ELSE ps

\* this.projects after getTreeItem(element): no line of it assigns
ProjectsAfterDisplay(ps, element) == ps

GetTreeItem(element) ==
    /\ ret' = [op |-> "getTreeItem", value |-> getTreeItem(projects, element)]
    /\ projects' = ProjectsAfterDisplay(projects, element)
    /\ trace' = Ran("getTreeItem", <<>>)
    /\ UNCHANGED <<stored, pending, calls, now, url, baseUrl, path>>

GetChildren(element) ==
    /\ ret' = [op |-> "getChildren", value |-> getChildren(projects, element)]
    /\ trace' = Ran("getChildren", <<>>)
    /\ UNCHANGED <<projects, stored, pending, calls, now, url, baseUrl, path>>

GetProjects ==
    /\ ret' = [op |-> "getProjects", value |-> getProjects(projects)]
    /\ trace' = Ran("getProjects", <<>>)
    /\ UNCHANGED <<projects, stored, pending, calls, now, url, baseUrl, path>>

\* the Thenable of globalState.update resolves: the write is durable
UpdateResolves ==
    /\ pending # Undefined
    /\ stored' = pending
    /\ pending' = Undefined
    /\ UNCHANGED <<projects, calls, now, trace, ret, url, baseUrl, path>>

Tick ==
    /\ now < MaxClock
    /\ now' = now + 1
    /\ UNCHANGED <<projects, stored, pending, calls, trace, ret, url, baseUrl, path>>

\* a forest the store can hold from an earlier run: a Project saved before
\* environments existed, and one with an environment and no currentEnvId
Legacy ==
    << [id |-> Id("proj", 1), name |-> <<"p">>, children |-> <<>>],
       [id |-> Id("proj", 2), name |-> <<"q">>,
        environments |-> << [id |-> Id("env", 1), name |-> <<"d">>,
                             baseUrl |-> <<"O", "/", "a">>] >>,
        children |-> << [id |-> Id("api", 1), name |-> <<"l">>,
                         url |-> <<"O", "/", "a", "/", "u">>, method |-> Undefined,
                         parentId |-> Id("proj", 2),
                         requestBody |-> Undefined, responseBody |-> Undefined] >>] >>

StoredForests == {Legacy}

\* the constructor: loadFromStorage
Init ==
    /\ stored \in {Undefined} \cup {Some(f) : f \in StoredForests}
    /\ projects = IF stored = Undefined THEN Seed ELSE stored[1]
    /\ pending = IF stored = Undefined THEN Some(Seed) ELSE Undefined
    /\ calls = [c \in Slots |-> Idle]
    /\ now = 2
    /\ trace = Ran("constructor", IF stored = Undefined
                                  THEN <<"globalState.get", "globalState.update">>
                                  ELSE <<"globalState.get">>)
    /\ ret = Undefined
    /\ url = <<>>
    /\ baseUrl = Undefined
    /\ path = Undefined

\* the handlers interleaved at their awaits; the tree view asks here about the
\* roots and the Projects, and about every node in SpecView
Next ==
    \/ \E c \in Slots, i \in 1..Len(projects) : AddEnvironment(c, i)
    \/ \E c \in Slots, answer \in NameAnswers : AddEnvironmentName(c, answer)
    \/ \E c \in Slots, answer \in BaseUrlAnswers : AddEnvironmentBaseUrl(c, answer)
    \/ \E c \in Slots, i \in 1..Len(projects) : SetCurrentEnvironment(c, i)
    \/ \E c \in Slots, k \in 0..MaxEnvs : SetCurrentEnvironmentPick(c, k)
    \/ Refresh
    \/ \E element \in Range(projects) : GetTreeItem(element)
    \/ \E element \in {Undefined} \cup {Some(n) : n \in Range(projects)} : GetChildren(element)
    \/ GetProjects
    \/ UpdateResolves
    \/ Tick

Spec == Init /\ [][Next]_vars

(***************************************************************************)
(* The relativizer alone: getPathFromUrl on every pair of bounded strings. *)
(***************************************************************************)
RECURSIVE Strings(_, _)
\* the strings over alphabet of length at most n
Strings(alphabet, n) ==
    IF n = 0 THEN {<<>>}
    ELSE LET shorter == Strings(alphabet, n - 1) IN
         shorter \cup {Append(t, ch) : t \in shorter, ch \in alphabet}

UrlInputs ==
    {prefix \o tail : prefix \in {<<>>, <<"O">>, <<"X">>},
                      tail \in Strings({"/", "a", " "}, MaxTail)}

InitUrl ==
    /\ url \in UrlInputs
    /\ baseUrl \in {Undefined} \cup {Some(b) : b \in UrlInputs}
    /\ path = Undefined
    /\ projects = Seed
    /\ stored = Some(Seed)
    /\ pending = Undefined
    /\ calls = [c \in Slots |-> Idle]
    /\ now = 2
    /\ trace = Ran("constructor", <<"globalState.get">>)
    /\ ret = Undefined

GetPathFromUrl ==
    /\ path = Undefined
    /\ path' = Some(getPathFromUrl(url, baseUrl))
    /\ UNCHANGED <<projects, stored, pending, calls, now, trace, ret, url, baseUrl>>

NextUrl == GetPathFromUrl

SpecUrl == InitUrl /\ [][NextUrl]_vars

(***************************************************************************)
(* The tree view over the forests a store can hold: two Projects, each     *)
(* with or without a Collection (holding one Interface) and a bare         *)
(* Interface.  Project ids are distinct, Collection ids are distinct,      *)
(* Interface ids are distinct, every parentId is the id of the container.  *)
(***************************************************************************)
IdPool == {Id("n", k) : k \in 1..MaxId}

Shapes == {"empty", "bare", "collection", "both"}

NavInterface(n, parent) ==
    [id |-> Id("api", n), name |-> <<"i">>, url |-> <<"O", "/", "a", "/", "u">>,
     method |-> Undefined, parentId |-> parent,
     requestBody |-> Undefined, responseBody |-> Undefined]

NavChildren(j, pid, cid, shape) ==
    (IF shape \in {"collection", "both"}
     THEN << [id |-> cid, name |-> <<"c">>, parentId |-> pid,
              children |-> << NavInterface(2 * j - 1, cid) >>] >>
     ELSE <<>>)
    \o (IF shape \in {"bare", "both"} THEN << NavInterface(2 * j, pid) >> ELSE <<>>)

NavForest(p1, c1, s1, p2, c2, s2) ==
    << [id |-> p1, name |-> <<"p">>, children |-> NavChildren(1, p1, c1, s1),
        environments |-> << [id |-> Id("env", 1), name |-> <<"d">>,
                             baseUrl |-> <<"O", "/", "a">>] >>,
        currentEnvId |-> Id("env", 1)],
       [id |-> p2, name |-> <<"q">>, children |-> NavChildren(2, p2, c2, s2)] >>

NavForests ==
    {NavForest(q[1], q[3], s1, q[2], q[4], s2) :
        q \in {r \in IdPool \X IdPool \X IdPool \X IdPool : r[1] # r[2] /\ r[3] # r[4]},
        s1 \in Shapes, s2 \in Shapes}

InitView ==
    /\ stored \in {Some(f) : f \in NavForests \cup {Seed, Legacy}}
    /\ projects = stored[1]
    /\ pending = Undefined
    /\ calls = [c \in Slots |-> Idle]
    /\ now = 2
    /\ trace = Ran("constructor", <<"globalState.get">>)
    /\ ret = Undefined
    /\ url = <<>>
    /\ baseUrl = Undefined
    /\ path = Undefined

NextView ==
    \/ \E element \in Nodes(projects) : GetTreeItem(element)
    \/ \E element \in {Undefined} \cup {Some(n) : n \in Nodes(projects)} : GetChildren(element)
    \/ GetProjects
    \/ Refresh

SpecView == InitView /\ [][NextView]_vars

(***************************************************************************)
(* Claims about the relativizer (SpecUrl)                                  *)
(***************************************************************************)
Parses(s) == URL(s).ok

\* C7 as stated: getPathFromUrl returns the raw url whenever baseUrl is absent
\* and whenever url does not parse as an absolute URL, and never throws.
C7_RawUrlWhenNoBaseOrUnparsable ==
    path # Undefined =>
        /\ (baseUrl = Undefined \/ ~Parses(url)) => path[1] = url
        /\ path[1] # Threw

\* C7 amended: getPathFromUrl returns the raw url whenever url does not parse
\* as an absolute URL; when url parses and baseUrl is absent or empty it
\* returns the path of url, not the raw url; and it never throws.
C7_RawUrlWhenUnparsable ==
    path # Undefined =>
        /\ ~Parses(url) => path[1] = url
        /\ (Parses(url) /\ (baseUrl = Undefined \/ baseUrl[1] = <<>>))
              => path[1] = URL(url).pathname
        /\ path[1] # Threw

C7_Witness ==
    /\ path # Undefined
    /\ baseUrl = Undefined
    /\ Parses(url)
    /\ path[1] = URL(url).pathname
    /\ path[1] # url

\* C8: for a url that parses with path p and a present baseUrl that parses
\* with base path P (of the base URL without its trailing slashes, trailing
\* slashes stripped): p when P is empty or "/"; otherwise "/" when p = P, p
\* without the prefix P when p starts with P followed by "/", and p unchanged
\* in every other case, hosts never being compared.
C8_RelativePath ==
    (path # Undefined /\ Parses(url) /\ baseUrl # Undefined /\ Parses(baseUrl[1])) =>
        LET p == URL(url).pathname
            P == StripTrailing(URL(StripTrailing(baseUrl[1], "/")).pathname, "/")
        IN /\ Parses(StripTrailing(baseUrl[1], "/"))
           /\ (P = <<>> \/ P = <<"/">>) => path[1] = p
           /\ (P # <<>> /\ P # <<"/">> /\ p = P) => path[1] = <<"/">>
           /\ (P # <<>> /\ P # <<"/">> /\ p # P /\ startsWith(p, P \o <<"/">>))
                 => (p = P \o path[1] /\ Head(path[1]) = "/")
           /\ (P # <<>> /\ P # <<"/">> /\ p # P /\ ~startsWith(p, P \o <<"/">>))
                 => path[1] = p
           /\ (url = <<"X", "/", "a">> /\ baseUrl = Some(<<"O">>)) => path[1] = <<"/", "a">>

\* a path that shares the base path as a string prefix only
C8_Witness ==
    /\ path # Undefined
    /\ url = <<"X", "/", "a", "a">>
    /\ baseUrl = Some(<<"O", "/", "a", "/">>)
    /\ path[1] = <<"/", "a", "a">>

(***************************************************************************)
(* Claims about the hierarchy navigator (SpecView)                         *)
(***************************************************************************)
\* the Projects whose subtree holds node
Owners(ps, node) ==
    {i \in 1..Len(ps) :
        \/ node \in Range(ps[i].children)
        \/ \E c \in Range(ps[i].children) : isCollection(c) /\ node \in Range(c.children)}

\* C10: in a forest with ids unique within their kind and every parentId the
\* id of the container, getProjectForItem of a Collection or Interface is the
\* Project whose subtree holds it; and it is undefined exactly for a parentId
\* that is no Project id and no id of a Collection directly under a Project.
C10_OwningProject ==
    /\ \A node \in Nodes(projects) :
          (isCollection(node) \/ isInterface(node)) =>
              Owners(projects, node) = {getProjectForItem(projects, node)}
    /\ \A parent \in IdPool :
          (getProjectForItem(projects, NavInterface(0, parent)) = 0)
             <=> /\ \A i \in 1..Len(projects) : projects[i].id # parent
                 /\ \A i \in 1..Len(projects) : \A c \in Range(projects[i].children) :
                       isCollection(c) => c.id # parent

(***************************************************************************)
(* Claims about the environment manager (Spec) and the read path (SpecView)*)
(***************************************************************************)
\* C1: every Project whose currentEnvId is set has it equal to the id of one
\* of its own environments, whatever handlers ran and whatever is in flight.
C1_CurrentEnvIdIsOwn ==
    \A i \in 1..Len(projects) :
        HasCurrentEnvId(projects[i]) =>
            \E k \in 1..Len(Envs(projects[i])) :
                Envs(projects[i])[k].id = projects[i].currentEnvId

\* setCurrentEnvironment has just made the second environment current while
\* another setCurrentEnvironment waits with the items it listed before the
\* second environment was added
C1_Witness ==
    /\ trace = Ran("setCurrentEnvironment", SaveAndRefresh)
    /\ \E c \in Slots :
          /\ calls[c].op = "setCurrentEnvironment"
          /\ Len(calls[c].items) = 1
          /\ Len(Envs(projects[calls[c].project])) = 2
          /\ projects[calls[c].project].currentEnvId = Envs(projects[calls[c].project])[2].id
          /\ projects[calls[c].project].currentEnvId # Envs(projects[calls[c].project])[1].id

\* an answer that is dismissed, empty or all spaces
IsBlankAnswer(answer) ==
    answer = Undefined \/ \A k \in 1..Len(answer[1]) : answer[1][k] = " "

\* the forest, the store and the writes under way are as they were
Untouched == UNCHANGED <<projects, stored, pending>>

Fired(t) == "fire" \in Range(t.calls)

Saved(t) == "globalState.update" \in Range(t.calls)

\* what a step that ends a handler without success must leave alone
NoEffectStep ==
    /\ \A c \in Slots :
          /\ \A answer \in NameAnswers :
                (IsBlankAnswer(answer) /\ AddEnvironmentName(c, answer)) =>
                    (calls'[c] = Idle /\ trace'.calls = <<>> /\ Untouched)
          /\ \A answer \in BaseUrlAnswers :
                (IsBlankAnswer(answer) /\ AddEnvironmentBaseUrl(c, answer)) =>
                    (calls'[c] = Idle /\ trace'.calls = <<>> /\ Untouched)
          /\ SetCurrentEnvironmentPick(c, 0) =>
                (calls'[c] = Idle /\ trace'.calls = <<>> /\ Untouched)
          /\ \A i \in 1..Len(projects) :
                (Envs(projects[i]) = <<>> /\ SetCurrentEnvironment(c, i)) =>
                    (calls'[c] = Idle /\ trace'.calls = <<"showInformationMessage">>
                     /\ Untouched)

\* C2: a blank or dismissed name prompt, a blank or dismissed base-URL
\* prompt, a dismissed quick pick and setCurrentEnvironment on a Project
\* without environments each end the handler with the forest and the store
\* unchanged, no persistence call and no notification; the last one shows one
\* informational message.
C2_NoEffect == [][NoEffectStep]_vars

\* a handler that returned at a blank answer after the forest had grown
C2_Witness ==
    /\ trace = Ran("addEnvironment", <<>>)
    /\ \E i \in 1..Len(projects) : Len(Envs(projects[i])) = 2
    /\ \E c \in Slots : calls[c] # Idle

Spaces(n) == [k \in 1..n |-> " "]

Slashes(n) == [k \in 1..n |-> "/"]

\* r is s without the spaces at its two ends
IsTrimOf(r, s) ==
    /\ r = <<>> \/ (r[1] # " " /\ r[Len(r)] # " ")
    /\ \E x, y \in 0..Len(s) : s = Spaces(x) \o r \o Spaces(y)

\* r is s without the slashes at its end
IsSlashStripOf(r, s) ==
    /\ r = <<>> \/ r[Len(r)] # "/"
    /\ \E y \in 0..Len(s) : s = r \o Slashes(y)

\* the step is a successful completion of addEnvironment in slot c
AddsEnvironment(c, answer) == ~IsBlankAnswer(answer) /\ AddEnvironmentBaseUrl(c, answer)

\* what a step that completes addEnvironment must do
AppendStep ==
    \A c \in Slots : \A answer \in BaseUrlAnswers :
        AddsEnvironment(c, answer) =>
            LET i == calls[c].project
                old == projects[i]
                new == projects'[i]
                n == Len(Envs(old))
            IN /\ "environments" \in DOMAIN new
               /\ Len(new.environments) = n + 1
               /\ SubSeq(new.environments, 1, n) = Envs(old)
               /\ IsTrimOf(new.environments[n + 1].name, calls[c].name)
               /\ \E t \in {SubSeq(answer[1], x, y) : x, y \in 1..Len(answer[1])} :
                     /\ IsTrimOf(t, answer[1])
                     /\ IsSlashStripOf(new.environments[n + 1].baseUrl, t)
               /\ HasCurrentEnvId(new)
               /\ new.currentEnvId = IF HasCurrentEnvId(old) THEN old.currentEnvId
                                     ELSE new.environments[n + 1].id
               /\ n = 0 => (Len(new.environments) = 1
                            /\ new.currentEnvId = new.environments[1].id)
               /\ new.id = old.id /\ new.name = old.name /\ new.children = old.children
               /\ DOMAIN new = DOMAIN old \cup {"environments", "currentEnvId"}
               /\ Len(projects') = Len(projects)
               /\ \A j \in 1..Len(projects) : j # i => projects'[j] = projects[j]

\* C3: a successful addEnvironment with name n and base URL b appends exactly
\* one entry to the Project's environments (empty if absent), named n trimmed,
\* with baseUrl b trimmed and then without trailing slashes; currentEnvId
\* becomes the new id if it was unset and stays if it was set; the earlier
\* entries, the rest of the Project and every other Project are unchanged.
C3_Append == [][AppendStep]_vars

\* an environment appended behind an earlier one, from an answer that needs
\* both the trim and the strip, with currentEnvId left on the earlier one
C3_Witness ==
    /\ trace = Ran("addEnvironment", SaveAndRefresh)
    /\ \E i \in 1..Len(projects) :
          /\ Len(Envs(projects[i])) = 2
          /\ Envs(projects[i])[2].baseUrl = <<"X", "/", "a">>
          /\ Envs(projects[i])[2].name = <<"n">>
          /\ projects[i].currentEnvId = Envs(projects[i])[1].id
          /\ projects[i].currentEnvId # Envs(projects[i])[2].id

\* C4: no two Environment entries of the forest have the same id.
C4_EnvironmentIdsUnique ==
    \A i, j \in 1..Len(projects) :
        \A k \in 1..Len(Envs(projects[i])) : \A l \in 1..Len(Envs(projects[j])) :
            Envs(projects[i])[k].id = Envs(projects[j])[l].id => (i = j /\ k = l)

\* the step is a successful mutation made by the handler in slot c
Mutates(c) ==
    \/ \E answer \in BaseUrlAnswers : AddsEnvironment(c, answer)
    \/ \E k \in 1..MaxEnvs : SetCurrentEnvironmentPick(c, k)

\* what a step that mutates must have done when it fires the notification
SavedBeforeNotifiedStep ==
    \A c \in Slots :
        Mutates(c) =>
            /\ trace'.calls = <<"globalState.update", "fire">>
            /\ stored' = Some(projects')
            /\ pending' = Undefined

\* C5: a successful addEnvironment or setCurrentEnvironment makes exactly one
\* persistence call and then one notification, and when the notification
\* fires the write has completed: the store holds the forest as mutated.
C5_SavedBeforeNotified == [][SavedBeforeNotifiedStep]_vars

\* the active base URL after an addEnvironment that found no currentEnvId
FirstIsActiveStep ==
    \A c \in Slots : \A answer \in BaseUrlAnswers :
        (AddsEnvironment(c, answer) /\ ~HasCurrentEnvId(projects[calls[c].project])) =>
            getCurrentBaseUrl(projects'[calls[c].project])
                = Some(projects'[calls[c].project].environments[1].baseUrl)

\* C6: after a successful addEnvironment on a Project that had no
\* currentEnvId, the active base URL is the baseUrl of the first entry of the
\* Project's environments.
C6_FirstIsActive == [][FirstIsActiveStep]_vars

\* what a step of the read path must leave alone
ReadOnlyStep ==
    /\ \A element \in Nodes(projects) :
          GetTreeItem(element) =>
              /\ Untouched
              /\ ~Fired(trace') /\ ~Saved(trace')
              /\ ret'.value = getTreeItem(projects', element)
              /\ (isProject(element) /\ ~HasCurrentEnvId(element)) =>
                    \A i \in 1..Len(projects) :
                        projects[i] = element => ~HasCurrentEnvId(projects'[i])
    /\ \A element \in {Undefined} \cup {Some(n) : n \in Nodes(projects)} :
          GetChildren(element) =>
              /\ Untouched
              /\ ~Fired(trace') /\ ~Saved(trace')
              /\ ret'.value = getChildren(projects', element)
    /\ GetProjects => (Untouched /\ ~Fired(trace') /\ ~Saved(trace'))
    /\ Refresh => (Untouched /\ trace'.calls = <<"fire">>)

\* C9: getTreeItem, getChildren, getProjects and refresh leave the forest, the
\* store and the writes under way unchanged; a displayed Project without
\* currentEnvId keeps it unset; asking again gives the value returned; only
\* refresh fires the notification.
C9_ReadOnly == [][ReadOnlyStep]_vars

\* a Project without currentEnvId displayed with its first environment
C9_Witness ==
    /\ ret # Undefined
    /\ ret.op = "getTreeItem"
    /\ \E i \in 1..Len(projects) :
          /\ ~HasCurrentEnvId(projects[i])
          /\ Envs(projects[i]) # <<>>
          /\ ret.value = getTreeItem(projects, projects[i])
          /\ ret.value.description = Envs(projects[i])[1].baseUrl

====
